---- MODULE Spec2Model ----
(***************************************************************************)
(* Model of bitvm/src/chunker/segment.rs: the Segment builder, the script  *)
(* compiler Segment::script, the witness builder Segment::witness, and the *)
(* execution of the compiled script on a witness by a stack machine with a *)
(* main stack and an altstack.                                             *)
(*                                                                         *)
(* Stack items are integers.  Raw bytes are 0 and 1; hint items are 7..9;  *)
(* hash items are >= 10; the key of a bit commitment is 100 + the index of *)
(* the committed name.  A stack is a sequence whose last element is the    *)
(* top.                                                                    *)
(***************************************************************************)
EXTENDS Integers, Sequences, FiniteSets, TLC

VARIABLES
    mem,          \* address -> element: the caller's elements and the Rc cells
    seg,          \* the Segment under construction / in use
    argsP,        \* history: arguments of the add_parameter calls, as passed
    argsR,        \* history: arguments of the add_result calls, as passed
    argsH,        \* history: argument of the last add_hint call (<<>> if none)
    calledFinal,  \* history: mark_final was called
    script_out,   \* Option: what the last script() call returned
    witness_out,  \* Option: what the last witness() call returned
    wit,          \* the witness handed to the stack machine
    corrupt,      \* position of the witness item changed by the adversary, 0 if none
    variant,      \* which insertion order the executed script was compiled for
    prog,         \* the script being executed
    pc,           \* index of the next instruction of prog
    stack,        \* main stack
    altstack,     \* alt stack
    status        \* "idle", "running", "done" or "aborted"

vars == <<mem, seg, argsP, argsR, argsH, calledFinal, script_out, witness_out,
          wit, corrupt, variant, prog, pc, stack, altstack, status>>

builderVars == <<mem, seg, argsP, argsR, argsH, calledFinal>>
callVars == <<script_out, witness_out>>
machineVars == <<wit, corrupt, variant, prog, pc, stack, altstack, status>>

(***************************************************************************)
(* Bounds of the model.                                                    *)
(***************************************************************************)
MaxParams == 2
MaxResults == 2

(***************************************************************************)
(* Generic helpers.                                                        *)
(***************************************************************************)
None == << >>
Some(x) == << x >>
IsSome(o) == Len(o) = 1
Unwrap(o) == o[1]

Rep(n, x) == [i \in 1..n |-> x]
Rev(s) == [i \in 1..Len(s) |-> s[Len(s) + 1 - i]]
Take(s, n) == SubSeq(s, 1, n)
LastN(s, n) == SubSeq(s, Len(s) - n + 1, Len(s))

RECURSIVE Flatten(_)
Flatten(ss) == IF ss = << >> THEN << >> ELSE Head(ss) \o Flatten(Tail(ss))

SeqsUpTo(S, n) == UNION {[1..k -> S] : k \in 0..n}

(***************************************************************************)
(* common.rs (outside segment.rs): the hash length and the direct-reveal   *)
(* set.  The hash length is scaled down; the names stand for the element   *)
(* names of the repository.                                                *)
(***************************************************************************)
BLAKE3_HASH_LENGTH == 2
PROOF_NAMES == {"s"}

(***************************************************************************)
(* elements.rs (outside segment.rs): the value capability.  An element is  *)
(* [id, witness_data]; witness_data is None until fill_with_data.          *)
(***************************************************************************)
Ids == {"a", "b", "s"}
IdIndex(id) == CASE id = "a" -> 1 [] id = "b" -> 2 [] id = "s" -> 3
witness_size(id) == CASE id = "a" -> 1 [] id = "b" -> 2 [] id = "s" -> 1
FirstData(id) == CASE id = "a" -> <<1>> [] id = "b" -> <<0, 1>> [] id = "s" -> <<1>>
DataChoices(id) == {FirstData(id)} \cup (IF id = "a" THEN {<<0>>} ELSE {})

Element(id, data) == [id |-> id, witness_data |-> data]
to_witness(e) == e.witness_data

RECURSIVE Val(_)
Val(w) == IF w = << >> THEN 0 ELSE Head(w) + 256 * Val(Tail(w))

\* the variable-length hash primitive: BLAKE3_HASH_LENGTH items determined by
\* the hashed bytes (their number and their value), injective on raw bytes
Blake3(w) ==
    [i \in 1..BLAKE3_HASH_LENGTH |->
        IF i = 1 THEN 10 + Len(w) ELSE IF i = 2 THEN 20 + Val(w) ELSE 30]

\* the committed value of an element: the raw bytes for a direct-reveal name,
\* the hash of the raw bytes otherwise; nothing for a value never populated
to_hash_witness(e) ==
    IF e.witness_data = None THEN << >>
    ELSE IF e.id \in PROOF_NAMES THEN Unwrap(e.witness_data)
    ELSE Blake3(Unwrap(e.witness_data))

(***************************************************************************)
(* Instructions of the target machine.  ph is the phase of Segment::script *)
(* that emitted the instruction (1..5, with the inner program in phase 4). *)
(***************************************************************************)
Instr(op, arg, ph) == [op |-> op, arg |-> arg, ph |-> ph]

(***************************************************************************)
(* assigner.rs (outside segment.rs): the commitment capability.  The       *)
(* opening witness of an element is its committed value followed by the    *)
(* key of its name; the locking script checks the key and leaves the       *)
(* committed value.                                                        *)
(***************************************************************************)
BcKey(id) == 100 + IdIndex(id)
locking_script(e, ph) == << Instr("LOCK", BcKey(e.id), ph) >>
get_witness(e) == to_hash_witness(e) \o << BcKey(e.id) >>

(***************************************************************************)
(* common.rs (outside segment.rs): the helper scripts, as single steps.    *)
(*   blake3_var_length(n): replaces the top n items by their hash.         *)
(*   equalverify(n): removes the top two blocks of n items, aborts unless  *)
(*     they are equal.                                                     *)
(*   not_equal(n): replaces the top two blocks of n items by one marker,   *)
(*     1 (true) when they differ and 0 (false) when they are equal.        *)
(***************************************************************************)
blake3_var_length(n, ph) == << Instr("BLAKE3", n, ph) >>
equalverify(n, ph) == << Instr("EQUALVERIFY_N", n, ph) >>
not_equal(n, ph) == << Instr("NOT_EQUAL_N", n, ph) >>

(***************************************************************************)
(* The stack machine: one instruction applied to (main stack, altstack).   *)
(***************************************************************************)
Ok(st, alt) == [ok |-> TRUE, stack |-> st, alt |-> alt]
Abort(st, alt) == [ok |-> FALSE, stack |-> st, alt |-> alt]

ExecInstr(ins, st, alt) ==
    LET n == Len(st) IN
    CASE ins.op = "OP_TOALTSTACK" ->
            IF n >= 1 THEN Ok(Take(st, n - 1), Append(alt, st[n])) ELSE Abort(st, alt)
      [] ins.op = "OP_FROMALTSTACK" ->
            IF Len(alt) >= 1
            THEN Ok(Append(st, alt[Len(alt)]), Take(alt, Len(alt) - 1))
            ELSE Abort(st, alt)
      [] ins.op = "OP_PICK" ->
            IF n >= ins.arg + 1 THEN Ok(Append(st, st[n - ins.arg]), alt)
            ELSE Abort(st, alt)
      [] ins.op = "OP_PUSH" -> Ok(Append(st, ins.arg), alt)
      [] ins.op = "OP_DROP" ->
            IF n >= 1 THEN Ok(Take(st, n - 1), alt) ELSE Abort(st, alt)
      [] ins.op = "OP_NIP" ->
            IF n >= 2 THEN Ok(Append(Take(st, n - 2), st[n]), alt) ELSE Abort(st, alt)
      [] ins.op = "LOCK" ->
            IF n >= 1 /\ st[n] = ins.arg THEN Ok(Take(st, n - 1), alt)
            ELSE Abort(st, alt)
      [] ins.op = "BLAKE3" ->
            IF n >= ins.arg
            THEN Ok(Take(st, n - ins.arg) \o Blake3(LastN(st, ins.arg)), alt)
            ELSE Abort(st, alt)
      [] ins.op = "EQUALVERIFY_N" ->
            IF n >= 2 * ins.arg
               /\ LastN(st, ins.arg) = SubSeq(st, n - 2 * ins.arg + 1, n - ins.arg)
            THEN Ok(Take(st, n - 2 * ins.arg), alt)
            ELSE Abort(st, alt)
      [] ins.op = "NOT_EQUAL_N" ->
            IF n >= 2 * ins.arg
            THEN Ok(Append(Take(st, n - 2 * ins.arg),
                           IF LastN(st, ins.arg)
                                = SubSeq(st, n - 2 * ins.arg + 1, n - ins.arg)
                           THEN 0 ELSE 1), alt)
            ELSE Abort(st, alt)

\* a whole script run from (st, alt): execute_script
RECURSIVE execute_script(_, _, _)
execute_script(p, st, alt) ==
    IF p = << >> THEN Ok(st, alt)
    ELSE LET r == ExecInstr(Head(p), st, alt) IN
         IF r.ok THEN execute_script(Tail(p), r.stack, r.alt) ELSE r

(***************************************************************************)
(* A Segment with its Rc handles followed: [name, script, parameter_list,  *)
(* result_list, hints, final_segment] with elements in the two lists.      *)
(* A Hint is the sequence of items its push() pushes.                      *)
(***************************************************************************)
hint_push(hint) == [i \in 1..Len(hint) |-> Instr("OP_PUSH", hint[i], 0)]

hinted_to_witness(v) ==
    execute_script(Flatten([i \in 1..Len(v.hints) |-> hint_push(v.hints[i])]),
                   << >>, << >>).stack

(***************************************************************************)
(* Segment::script, block by block.  Each block is the script text the     *)
(* code emits; P and R are the parameter and result elements in insertion  *)
(* order.                                                                  *)
(***************************************************************************)
\* (variant) the fragment of every result emitted in forward order
unlock_results_forward(R) ==
    Flatten([k \in 1..Len(R) |->
        LET result == R[k] IN
        << Instr("LOCK", 100 + IdIndex(result.id), 1) >>
          \o [i \in 1..BLAKE3_HASH_LENGTH |-> Instr("OP_TOALTSTACK", 0, 1)]])

\* lines 82-87: results in reverse order, hash length to the altstack
unlock_results(R) ==
    Flatten([k \in 1..Len(R) |->
        LET result == R[Len(R) + 1 - k] IN
        locking_script(result, 1)
          \o Rep(BLAKE3_HASH_LENGTH, Instr("OP_TOALTSTACK", 0, 1))])

\* (variant) the hash length moved for every parameter, direct-reveal or not
unlock_parameters_hash_only(P) ==
    Flatten([k \in 1..Len(P) |->
        << Instr("LOCK", 100 + IdIndex(P[k].id), 2) >>
          \o [i \in 1..BLAKE3_HASH_LENGTH |-> Instr("OP_TOALTSTACK", 0, 2)]])

\* (variant) the fragment of every parameter emitted in reverse order
unlock_parameters_reverse(P) ==
    Flatten([k \in 1..Len(P) |->
        LET parameter == P[Len(P) + 1 - k] IN
        locking_script(parameter, 2)
          \o IF parameter.id \in PROOF_NAMES
             THEN Rep(witness_size(parameter.id), Instr("OP_TOALTSTACK", 0, 2))
             ELSE Rep(BLAKE3_HASH_LENGTH, Instr("OP_TOALTSTACK", 0, 2))])

\* lines 88-101: parameters in forward order; the full value of a
\* direct-reveal parameter, the hash length of any other
unlock_parameters(P) ==
    Flatten([k \in 1..Len(P) |->
        LET parameter == P[k] IN
        locking_script(parameter, 2)
          \o IF parameter.id \in PROOF_NAMES
             THEN Rep(witness_size(parameter.id), Instr("OP_TOALTSTACK", 0, 2))
             ELSE Rep(BLAKE3_HASH_LENGTH, Instr("OP_TOALTSTACK", 0, 2))])

\* (variant) OP_PICK at offset base, without the length of the parameter
check_parameter_pick_base(parameter, base) ==
    LET parameter_length == witness_size(parameter.id) IN
    IF parameter.id \in PROOF_NAMES
    THEN Rep(parameter_length, Instr("OP_PICK", base, 3))
           \o Rep(parameter_length, Instr("OP_FROMALTSTACK", 0, 3))
           \o equalverify(parameter_length, 3)
    ELSE Rep(parameter_length, Instr("OP_PICK", base, 3))
           \o blake3_var_length(parameter_length, 3)
           \o Rep(BLAKE3_HASH_LENGTH, Instr("OP_FROMALTSTACK", 0, 3))
           \o equalverify(BLAKE3_HASH_LENGTH, 3)

\* (variant) the hash of a parameter compared but the outcome dropped
check_parameter_unverified(parameter, base) ==
    LET parameter_length == witness_size(parameter.id) IN
    IF parameter.id \in PROOF_NAMES
    THEN Rep(parameter_length, Instr("OP_PICK", base + parameter_length - 1, 3))
           \o Rep(parameter_length, Instr("OP_FROMALTSTACK", 0, 3))
           \o equalverify(parameter_length, 3)
    ELSE Rep(parameter_length, Instr("OP_PICK", base + parameter_length - 1, 3))
           \o blake3_var_length(parameter_length, 3)
           \o Rep(BLAKE3_HASH_LENGTH, Instr("OP_FROMALTSTACK", 0, 3))
           \o Rep(2 * BLAKE3_HASH_LENGTH, Instr("OP_DROP", 0, 3))

\* (variant) the direct-reveal comparison left out: the copy and the
\* commitment stay on the main stack
check_parameter_unconsumed(parameter, base) ==
    LET parameter_length == witness_size(parameter.id) IN
    IF parameter.id \in PROOF_NAMES
    THEN Rep(parameter_length, Instr("OP_PICK", base + parameter_length - 1, 3))
           \o Rep(parameter_length, Instr("OP_FROMALTSTACK", 0, 3))
    ELSE Rep(parameter_length, Instr("OP_PICK", base + parameter_length - 1, 3))
           \o blake3_var_length(parameter_length, 3)
           \o Rep(BLAKE3_HASH_LENGTH, Instr("OP_FROMALTSTACK", 0, 3))
           \o equalverify(BLAKE3_HASH_LENGTH, 3)

\* (variant) the raw length pulled from the altstack in both branches
check_parameter_pull_length(parameter, base) ==
    LET parameter_length == witness_size(parameter.id) IN
    IF parameter.id \in PROOF_NAMES
    THEN Rep(parameter_length, Instr("OP_PICK", base + parameter_length - 1, 3))
           \o Rep(parameter_length, Instr("OP_FROMALTSTACK", 0, 3))
           \o equalverify(parameter_length, 3)
    ELSE Rep(parameter_length, Instr("OP_PICK", base + parameter_length - 1, 3))
           \o blake3_var_length(parameter_length, 3)
           \o Rep(parameter_length, Instr("OP_FROMALTSTACK", 0, 3))
           \o equalverify(BLAKE3_HASH_LENGTH, 3)

\* lines 105-136: the check of one parameter, whose raw bytes lie base items
\* below the top of the main stack
check_parameter(parameter, base) ==
    LET parameter_length == witness_size(parameter.id) IN
    IF parameter.id \in PROOF_NAMES
    THEN Rep(parameter_length, Instr("OP_PICK", base + parameter_length - 1, 3))
           \o Rep(parameter_length, Instr("OP_FROMALTSTACK", 0, 3))
           \o equalverify(parameter_length, 3)
    ELSE Rep(parameter_length, Instr("OP_PICK", base + parameter_length - 1, 3))
           \o blake3_var_length(parameter_length, 3)
           \o Rep(BLAKE3_HASH_LENGTH, Instr("OP_FROMALTSTACK", 0, 3))
           \o equalverify(BLAKE3_HASH_LENGTH, 3)

\* lines 104-139: parameters in reverse order, base growing by each length
RECURSIVE check_parameters(_, _, _)
check_parameters(P, k, base) ==
    IF k = 0 THEN << >>
    ELSE check_parameter(P[k], base)
           \o check_parameters(P, k - 1, base + witness_size(P[k].id))

\* lines 144-145: the inner script, verbatim
inner_script(inner) == [k \in 1..Len(inner) |-> Instr(inner[k], 0, 4)]

\* (variant) the results hashed in forward order
hash_results_forward(R) ==
    Flatten([k \in 1..Len(R) |->
        blake3_var_length(witness_size(R[k].id), 4)
          \o Rep(BLAKE3_HASH_LENGTH, Instr("OP_TOALTSTACK", 0, 4))])

\* lines 147-153: hash of every result in reverse order, each to the altstack
hash_results(R) ==
    Flatten([k \in 1..Len(R) |->
        LET result == R[Len(R) + 1 - k] IN
        blake3_var_length(witness_size(result.id), 4)
          \o Rep(BLAKE3_HASH_LENGTH, Instr("OP_TOALTSTACK", 0, 4))])

\* (variant) only one hash per result restored
restore_hashes_once(R) ==
    [i \in 1..(BLAKE3_HASH_LENGTH * Len(R)) |-> Instr("OP_FROMALTSTACK", 0, 4)]

\* lines 155-157: everything back from the altstack
restore_hashes(R) ==
    Rep(BLAKE3_HASH_LENGTH * Len(R) * 2, Instr("OP_FROMALTSTACK", 0, 4))

\* (variant) the comparison emitted for the final segment only
compare_results_inverted(R, final_segment) ==
    IF final_segment
    THEN << Instr("NOT_EQUAL_N", BLAKE3_HASH_LENGTH * Len(R), 5) >> ELSE << >>

\* (variant) the comparison over one hash length, whatever the number of results
compare_results_single(R, final_segment) ==
    IF ~final_segment THEN not_equal(BLAKE3_HASH_LENGTH, 5) ELSE << >>

\* (variant) the comparison emitted whether the segment is final or not
compare_results_always(R, final_segment) ==
    not_equal(BLAKE3_HASH_LENGTH * Len(R), 5)

\* lines 162-170: the comparison, unless the segment is final
compare_results(R, final_segment) ==
    IF ~final_segment THEN not_equal(BLAKE3_HASH_LENGTH * Len(R), 5) ELSE << >>

\* lines 77-172
script(v) ==
    unlock_results(v.result_list)
      \o unlock_parameters(v.parameter_list)
      \o check_parameters(v.parameter_list, Len(v.parameter_list), 0)
      \o inner_script(v.script)
      \o hash_results(v.result_list)
      \o restore_hashes(v.result_list)
      \o compare_results(v.result_list, v.final_segment)

(***************************************************************************)
(* Segment::witness.  The result is [panicked, witness].                   *)
(***************************************************************************)
Panicked == [panicked |-> TRUE, witness |-> << >>]
Returned(w) == [panicked |-> FALSE, witness |-> w]

\* (variant) a parameter without raw value is skipped
raw_parameters_skipping(P) ==
    << Flatten([k \in 1..Len(P) |->
                  IF P[k].witness_data = << >> THEN << >> ELSE P[k].witness_data[1]]) >>

\* lines 181-190: the raw value of every parameter, forward; None stands for
\* the panic of line 187
raw_parameters(P) ==
    IF \E k \in 1..Len(P) : to_witness(P[k]) = None THEN None
    ELSE Some(Flatten([k \in 1..Len(P) |-> Unwrap(to_witness(P[k]))]))

\* (variant) the opening of every result in reverse order
result_openings_reverse(R) ==
    Flatten([k \in 1..Len(R) |->
        to_hash_witness(R[Len(R) + 1 - k]) \o << 100 + IdIndex(R[Len(R) + 1 - k].id) >>])

\* (variant) the opening of every parameter in forward order
parameter_openings_forward(P) ==
    Flatten([k \in 1..Len(P) |-> to_hash_witness(P[k]) \o << 100 + IdIndex(P[k].id) >>])

\* lines 192-194: the opening of every parameter, in reverse order
parameter_openings(P) ==
    Flatten([k \in 1..Len(P) |-> get_witness(P[Len(P) + 1 - k])])

\* lines 196-198: the opening of every result, in forward order
result_openings(R) == Flatten([k \in 1..Len(R) |-> get_witness(R[k])])

\* lines 175-201
witness(v) ==
    LET raw == raw_parameters(v.parameter_list) IN
    IF raw = None THEN Panicked
    ELSE Returned(hinted_to_witness(v)
                    \o Unwrap(raw)
                    \o parameter_openings(v.parameter_list)
                    \o result_openings(v.result_list))

(***************************************************************************)
(* The Segment builder.  parameter_list and result_list hold Rc handles:   *)
(* addresses of cells of mem.  The caller's element named id lives at      *)
(* OwnerAddr(id); the cell of the k-th parameter is ParamCell(k), of the   *)
(* k-th result ResultCell(k).                                              *)
(***************************************************************************)
OwnerAddr(id) == IdIndex(id)
ParamCell(k) == 10 + k
ResultCell(k) == 20 + k

\* the Segment with its handles followed
View(sg, m) ==
    [name |-> sg.name, script |-> sg.script,
     parameter_list |-> [k \in 1..Len(sg.parameter_list) |-> m[sg.parameter_list[k]]],
     result_list |-> [k \in 1..Len(sg.result_list) |-> m[sg.result_list[k]]],
     hints |-> sg.hints, final_segment |-> sg.final_segment]

\* lines 40-49
new_with_name(name, inner) ==
    [name |-> name, script |-> inner, parameter_list |-> << >>,
     result_list |-> << >>, hints |-> << >>, final_segment |-> FALSE]

\* lines 36-38
new(inner) == new_with_name("", inner)

\* (variant) the handle shares the caller's element instead of a copy of it
rc_share(m, x, fresh) == [mem |-> (fresh :> m[x]) @@ m, ptr |-> x]

\* Rc::new(Box::new(x.clone())): a fresh cell holding a copy of the element at x
rc_new_box_clone(m, x, fresh) == [mem |-> (fresh :> m[x]) @@ m, ptr |-> fresh]

\* lines 51-54
add_parameter(sg, m, x) ==
    LET c == rc_new_box_clone(m, x, ParamCell(Len(sg.parameter_list) + 1)) IN
    [seg |-> [sg EXCEPT !.parameter_list = Append(@, c.ptr)], mem |-> c.mem]

\* lines 56-59
add_result(sg, m, x) ==
    LET c == rc_new_box_clone(m, x, ResultCell(Len(sg.result_list) + 1)) IN
    [seg |-> [sg EXCEPT !.result_list = Append(@, c.ptr)], mem |-> c.mem]

\* (variant) the hints are appended to the earlier ones
add_hint_appending(sg, hints) == [sg EXCEPT !.hints = @ \o hints]

\* lines 61-64
add_hint(sg, hints) == [sg EXCEPT !.hints = hints]

\* lines 66-69
mark_final(sg) == [sg EXCEPT !.final_segment = TRUE]

\* lines 71-73
is_final(sg) == sg.final_segment

(***************************************************************************)
(* Inputs.                                                                 *)
(***************************************************************************)
InnerPrograms == {<< >>, <<"OP_DROP">>, <<"OP_NIP">>}
HintArgs == { << <<7>> >>, << <<8, 9>> >> }
\* the direct-reveal set holds names of parameters only: no result carries one
ResultIds == Ids \ PROOF_NAMES

(***************************************************************************)
(* Specification Spec: the builder, the caller's elements, and the calls   *)
(* of script() and witness().                                              *)
(***************************************************************************)
MachineIdle ==
    /\ wit = << >> /\ corrupt = 0 /\ variant = "same" /\ prog = << >>
    /\ pc = 1 /\ stack = << >> /\ altstack = << >> /\ status = "idle"

\* what the caller constructs: Segment::new or Segment::new_with_name
Constructions == {new(<< >>), new_with_name("copy_q4_to_t4", <<"OP_DROP">>)}

\* the caller's elements when the Segment is constructed: "a" is not yet
\* populated, the others are
InitialData(id) == IF id = "a" THEN None ELSE Some(FirstData(id))

Init ==
    /\ mem = [a \in {OwnerAddr(id) : id \in Ids} |->
                LET id == CHOOSE i \in Ids : OwnerAddr(i) = a IN
                Element(id, InitialData(id))]
    /\ seg \in Constructions
    /\ argsP = << >> /\ argsR = << >> /\ argsH = << >> /\ calledFinal = FALSE
    /\ script_out = None /\ witness_out = None
    /\ MachineIdle

\* the caller populates (or changes) one of its elements: fill_with_data
Fill(id, d) ==
    /\ mem[OwnerAddr(id)].witness_data # Some(d)
    /\ mem' = [mem EXCEPT ![OwnerAddr(id)].witness_data = Some(d)]
    /\ UNCHANGED <<seg, argsP, argsR, argsH, calledFinal, callVars, machineVars>>

AddParameter(id) ==
    /\ Len(seg.parameter_list) < MaxParams
    /\ LET r == add_parameter(seg, mem, OwnerAddr(id)) IN
          /\ seg' = r.seg
          /\ mem' = r.mem
    /\ argsP' = Append(argsP, mem[OwnerAddr(id)])
    /\ script_out' = None /\ witness_out' = None
    /\ UNCHANGED <<argsR, argsH, calledFinal, machineVars>>

AddResult(id) ==
    /\ Len(seg.result_list) < MaxResults
    /\ LET r == add_result(seg, mem, OwnerAddr(id)) IN
          /\ seg' = r.seg
          /\ mem' = r.mem
    /\ argsR' = Append(argsR, mem[OwnerAddr(id)])
    /\ script_out' = None /\ witness_out' = None
    /\ UNCHANGED <<argsP, argsH, calledFinal, machineVars>>

AddHint(hints) ==
    /\ seg' = add_hint(seg, hints)
    /\ argsH' = hints
    /\ script_out' = None /\ witness_out' = None
    /\ UNCHANGED <<mem, argsP, argsR, calledFinal, machineVars>>

MarkFinal ==
    /\ seg' = mark_final(seg)
    /\ calledFinal' = TRUE
    /\ script_out' = None /\ witness_out' = None
    /\ UNCHANGED <<mem, argsP, argsR, argsH, machineVars>>

CallScript ==
    /\ UNCHANGED <<builderVars, witness_out, machineVars>>
    /\ script_out' = Some(script(View(seg, mem)))

\* (variant) witness() takes the hints out of the Segment
CallWitnessDraining ==
    /\ witness_out' = << witness(View(seg, mem)) >>
    /\ seg' = [seg EXCEPT !.hints = << >>]
    /\ UNCHANGED <<mem, argsP, argsR, argsH, calledFinal, script_out, machineVars>>

CallWitness ==
    /\ UNCHANGED <<builderVars, script_out, machineVars>>
    /\ witness_out' = Some(witness(View(seg, mem)))

Next ==
    \/ \E id \in Ids : \E d \in DataChoices(id) : Fill(id, d)
    \/ \E id \in Ids : AddParameter(id)
    \/ \E id \in ResultIds : AddResult(id)
    \/ \E hints \in HintArgs : AddHint(hints)
    \/ MarkFinal
    \/ CallScript
    \/ CallWitness

Spec == Init /\ [][Next]_vars

(***************************************************************************)
(* Specification SpecExec: a Segment as the builder leaves it, with every  *)
(* value populated, its witness, an adversary who may change one item of   *)
(* the witness, and the execution of the compiled script on the witness,   *)
(* one instruction per step.                                               *)
(***************************************************************************)
Populated(ids) == {Element(id, Some(FirstData(id))) : id \in ids}
ExecHints == {<< >>, << <<7>> >>}

\* the Segment the builder calls new(inner), add_parameter(P[1]), ...,
\* add_result(R[1]), ..., add_hint(h), mark_final() leave
Built(P, R, inner, h, f) ==
    [name |-> "", script |-> inner,
     parameter_list |-> [k \in 1..Len(P) |-> ParamCell(k)],
     result_list |-> [k \in 1..Len(R) |-> ResultCell(k)],
     hints |-> h, final_segment |-> f]

BuiltMem(P, R) ==
    [a \in {OwnerAddr(id) : id \in Ids}
             \cup {ParamCell(k) : k \in 1..Len(P)}
             \cup {ResultCell(k) : k \in 1..Len(R)} |->
        IF a \in {ParamCell(k) : k \in 1..Len(P)} THEN P[a - ParamCell(0)]
        ELSE IF a \in {ResultCell(k) : k \in 1..Len(R)} THEN R[a - ResultCell(0)]
        ELSE LET id == CHOOSE i \in Ids : OwnerAddr(i) = a IN
             Element(id, Some(FirstData(id)))]

InitExec ==
    \E P \in SeqsUpTo(Populated(Ids), MaxParams),
       R \in SeqsUpTo(Populated(ResultIds), MaxResults),
       inner \in InnerPrograms, h \in ExecHints, f \in BOOLEAN :
        /\ mem = BuiltMem(P, R)
        /\ seg = Built(P, R, inner, h, f)
        /\ argsP = P /\ argsR = R /\ argsH = h /\ calledFinal = f
        /\ script_out = None /\ witness_out = None
        /\ wit = witness(View(seg, mem)).witness
        /\ corrupt = 0 /\ variant = "same" /\ prog = << >>
        /\ pc = 1 /\ stack = << >> /\ altstack = << >> /\ status = "idle"

\* the Segment built with the parameter (or result) insertion order reversed
Reordered(v, how) ==
    CASE how = "same" -> v
      [] how = "revP" -> [v EXCEPT !.parameter_list = Rev(@)]
      [] how = "revR" -> [v EXCEPT !.result_list = Rev(@)]

\* positions of the witness: hints, raw parameters, parameter openings,
\* result openings
HintLen(v) == Len(hinted_to_witness(v))
RawLen(v) == Len(Unwrap(raw_parameters(v.parameter_list)))
ParamOpenLen(v) == Len(parameter_openings(v.parameter_list))
RawPositions(v) == (HintLen(v) + 1)..(HintLen(v) + RawLen(v))
\* the first item of the opening of result k
ResultOpenStart(v, k) ==
    HintLen(v) + RawLen(v) + ParamOpenLen(v)
      + Len(result_openings(Take(v.result_list, k - 1))) + 1
ResultHashPositions(v, k) ==
    ResultOpenStart(v, k)..(ResultOpenStart(v, k) + BLAKE3_HASH_LENGTH - 1)

\* a changed item: the other bit of a raw byte, another value of a hash item
Flip(x) == IF x \in {0, 1} THEN 1 - x ELSE x + 50

\* the adversary supplies a witness one item of which differs: a raw parameter
\* byte, or an item of a committed result hash
Corrupt(i) ==
    /\ status = "idle" /\ corrupt = 0
    /\ LET v == View(seg, mem) IN
          i \in RawPositions(v)
                  \cup UNION {ResultHashPositions(v, k) : k \in 1..Len(v.result_list)}
    /\ wit' = [wit EXCEPT ![i] = Flip(@)]
    /\ corrupt' = i
    /\ UNCHANGED <<builderVars, callVars, variant, prog, pc, stack, altstack, status>>

\* execute_script_with_inputs(script, witness): the witness is the initial
\* main stack.  The script is the one compiled for the insertion order how;
\* a corrupted witness is run against the script of its own Segment only.
Begin(how) ==
    /\ status = "idle"
    /\ corrupt # 0 => how = "same"
    /\ variant' = how
    /\ prog' = script(Reordered(View(seg, mem), how))
    /\ stack' = wit /\ altstack' = << >> /\ pc' = 1
    /\ status' = IF prog' = << >> THEN "done" ELSE "running"
    /\ UNCHANGED <<builderVars, callVars, wit, corrupt>>

\* one instruction; an aborting instruction leaves pc at itself
Step ==
    /\ status = "running"
    /\ LET r == ExecInstr(prog[pc], stack, altstack) IN
          /\ stack' = r.stack /\ altstack' = r.alt
          /\ pc' = IF r.ok THEN pc + 1 ELSE pc
          /\ status' = IF ~r.ok THEN "aborted"
                       ELSE IF pc = Len(prog) THEN "done" ELSE "running"
    /\ UNCHANGED <<builderVars, callVars, wit, corrupt, variant, prog>>

NextExec ==
    \/ \E i \in 1..Len(wit) : Corrupt(i)
    \/ \E how \in {"same", "revP", "revR"} : Begin(how)
    \/ Step

SpecExec == InitExec /\ [][NextExec]_vars

(***************************************************************************)
(* Vocabulary of the properties of an execution.                           *)
(***************************************************************************)
V == View(seg, mem)
NumParams == Len(V.parameter_list)
NumResults == Len(V.result_list)
IdsOf(L) == [k \in 1..Len(L) |-> L[k].id]
SizesOf(L) == [k \in 1..Len(L) |-> witness_size(L[k].id)]

RECURSIVE Sum(_)
Sum(ns) == IF ns = << >> THEN 0 ELSE Head(ns) + Sum(Tail(ns))

\* what the inner program makes of [hints, raw parameters] as the (possibly
\* corrupted) witness supplies them
InnerRun ==
    execute_script(inner_script(V.script),
                   Take(wit, HintLen(V) + RawLen(V)), << >>)
\* the inner program turns [hints, raw parameters] into raw results: as many
\* bytes as the results have
WellShaped ==
    InnerRun.ok /\ Len(InnerRun.stack) = Sum(SizesOf(V.result_list))
\* the bytes of result k in the inner program's output
ComputedResult(k) ==
    SubSeq(InnerRun.stack, Sum(Take(SizesOf(V.result_list), k - 1)) + 1,
           Sum(Take(SizesOf(V.result_list), k)))
\* the hash the witness commits result k to
CommittedHash(k) ==
    SubSeq(wit, ResultOpenStart(V, k), ResultOpenStart(V, k) + BLAKE3_HASH_LENGTH - 1)
\* the number of items in which the committed and the recomputed result
\* hashes differ
MismatchedItems ==
    Cardinality({kj \in (1..NumResults) \X (1..BLAKE3_HASH_LENGTH) :
                    CommittedHash(kj[1])[kj[2]] # Blake3(ComputedResult(kj[1]))[kj[2]]})
\* the inner program's output is byte-identical to the committed results
Honest ==
    /\ WellShaped
    /\ \A k \in 1..NumResults :
          ComputedResult(k) = Unwrap(V.result_list[k].witness_data)

Paired == variant = "same" /\ corrupt = 0
Started == status # "idle"
CurrentPhase == prog[pc].ph

\* the first raw byte of parameter k in the witness
RawStart(k) == HintLen(V) + Sum(Take(SizesOf(V.parameter_list), k - 1)) + 1
RawPositionsOf(k) == RawStart(k)..(RawStart(k) + witness_size(V.parameter_list[k].id) - 1)

CountInstr(p, op, ph) ==
    Cardinality({k \in 1..Len(p) : p[k].op = op /\ p[k].ph = ph})

C2_Honesty ==
    (status \in {"done", "aborted"} /\ Paired /\ ~V.final_segment /\ Honest) =>
        status = "done" /\ stack = <<0>>

\* the simple case: empty inner program, one parameter that is also the result
C2_Witness ==
    /\ Paired /\ ~V.final_segment /\ Honest /\ status = "done" /\ stack = <<0>>
    /\ V.script = << >> /\ NumParams = 1 /\ NumResults = 1
    /\ V.parameter_list[1] = V.result_list[1]

(***************************************************************************)
(* C3: fraud sensitivity.  For a Segment that is not final, when the raw   *)
(* parameters are as witness() built them and exactly one item of the      *)
(* committed result hashes differs from the recomputed hashes, whichever   *)
(* result it belongs to, the execution does not abort and ends with only   *)
(* the fault marker (1, OP_TRUE) on the main stack.                        *)
(***************************************************************************)
C3_FraudSensitivity ==
    (/\ status \in {"done", "aborted"} /\ variant = "same" /\ ~V.final_segment
     /\ corrupt \notin RawPositions(V)
     /\ WellShaped /\ NumResults >= 1 /\ MismatchedItems = 1) =>
        status = "done" /\ stack = <<1>>

\* the mismatch is one flipped item of the second of two results
C3_Witness ==
    /\ variant = "same" /\ ~V.final_segment /\ Honest /\ NumResults = 2
    /\ corrupt \in ResultHashPositions(V, 2) /\ MismatchedItems = 1
    /\ status = "done" /\ stack = <<1>>

(***************************************************************************)
(* C4, as stated: the witness of a Segment always aborts against the       *)
(* script compiled for the reversed parameter (or result) order.  Stated   *)
(* here for lists of at least two entries.                                 *)
(***************************************************************************)
C4_AsStated ==
    /\ (variant = "revP" /\ NumParams >= 2) => status # "done"
    /\ (variant = "revR" /\ NumResults >= 2) => status # "done"

(***************************************************************************)
(* C4, amended: when reversing the parameter (respectively result) list    *)
(* changes the order of the names in it, the witness of the Segment aborts *)
(* against the script compiled for the reversed order.                     *)
(***************************************************************************)
C4_OrderSensitivity ==
    /\ (variant = "revP" /\ IdsOf(V.parameter_list) # Rev(IdsOf(V.parameter_list)))
          => status # "done"
    /\ (variant = "revR" /\ IdsOf(V.result_list) # Rev(IdsOf(V.result_list)))
          => status # "done"

C4_Witness ==
    /\ variant = "revP" /\ status = "aborted"
    /\ NumParams = 2 /\ V.parameter_list[1].id # V.parameter_list[2].id
    /\ WellShaped

(***************************************************************************)
(* C5: direct reveal.  The script moves witness_size items per             *)
(* direct-reveal parameter (the hash length per other parameter) to the    *)
(* altstack in phase 2 and hashes only the other parameters in phase 3;    *)
(* when one raw byte of a direct-reveal parameter is changed, the          *)
(* execution aborts in phase 3 and never reaches the inner program: it is  *)
(* either still running in the phases 1-3 or aborted in phase 3.           *)
(***************************************************************************)
C5_DirectReveal ==
    (Started /\ variant = "same") =>
        /\ pc = 1 => CountInstr(prog, "OP_TOALTSTACK", 2)
             = Sum([k \in 1..NumParams |->
                      IF V.parameter_list[k].id \in PROOF_NAMES
                      THEN witness_size(V.parameter_list[k].id)
                      ELSE BLAKE3_HASH_LENGTH])
        /\ pc = 1 => CountInstr(prog, "BLAKE3", 3)
             = Cardinality({k \in 1..NumParams :
                              V.parameter_list[k].id \notin PROOF_NAMES})
        /\ corrupt # 0 =>
              \/ status = "running" /\ CurrentPhase <= 3
              \/ status = "aborted" /\ CurrentPhase = 3
              \/ ~ \E k \in 1..NumParams :
                      /\ V.parameter_list[k].id \in PROOF_NAMES
                      /\ corrupt \in RawPositionsOf(k)

C5_Witness ==
    /\ variant = "same" /\ status = "aborted" /\ CurrentPhase = 3
    /\ NumParams = 2 /\ NumResults >= 1 /\ Honest
    /\ \E k \in 1..NumParams :
          /\ V.parameter_list[k].id \in PROOF_NAMES
          /\ corrupt \in RawPositionsOf(k)

(***************************************************************************)
(* Vocabulary of the properties of the phases of an execution.             *)
(***************************************************************************)
\* the number of items of [hints, raw parameters] in the witness
FrameLen == HintLen(V) + RawLen(V)
\* the execution stands at an instruction (the next one, or the one that
\* aborted)
AtInstr == status \in {"running", "aborted"}
\* the number of instructions op among the first k of the executed script
OpsUpTo(op, k) == Cardinality({j \in 1..k : prog[j].op = op})
\* the values the locking fragments are emitted for, in the order of emission
EmittedFor == Rev(V.result_list) \o V.parameter_list
\* the raw bytes the witness supplies for parameter k
SuppliedRaw(k) ==
    SubSeq(wit, RawStart(k), RawStart(k) + witness_size(V.parameter_list[k].id) - 1)
\* the parameter the phase 3 instruction at pc belongs to: one EQUALVERIFY_N
\* closes the check of each parameter, the last parameter first
CheckedParameter == NumParams - OpsUpTo("EQUALVERIFY_N", pc - 1)

(***************************************************************************)
(* C11: name-matched unlocking.  When script(seg) runs on witness(seg),    *)
(* every locking fragment of phase 1 (results, last first) and of phase 2  *)
(* (parameters, first first) finds on top of the main stack the opening    *)
(* witness (committed value, then key) of the value it was emitted for,    *)
(* and does not abort.                                                     *)
(***************************************************************************)
C11_NameMatchedUnlocking ==
    (AtInstr /\ Paired /\ prog[pc].op = "LOCK") =>
        LET j == OpsUpTo("LOCK", pc)
            opening == get_witness(EmittedFor[j])
        IN  /\ status = "running"
            /\ CurrentPhase = (IF j <= NumResults THEN 1 ELSE 2)
            /\ Len(stack) >= Len(opening)
            /\ LastN(stack, Len(opening)) = opening

\* the fragment of the second of two parameters of different names and
\* lengths, after two results
C11_Witness ==
    /\ status = "running" /\ Paired /\ prog[pc].op = "LOCK"
    /\ NumResults = 2 /\ NumParams = 2
    /\ OpsUpTo("LOCK", pc) = 4
    /\ witness_size(V.parameter_list[1].id) # witness_size(V.parameter_list[2].id)
    /\ LastN(stack, Len(get_witness(V.parameter_list[2]))) = get_witness(V.parameter_list[2])

(***************************************************************************)
(* C12: parameter check pairing.  In phase 3, when the OP_PICKs of a       *)
(* parameter are done, the copied items are the raw bytes the witness      *)
(* supplies for that parameter, in their order; at the comparison, the     *)
(* items pulled from the altstack are the commitment of that parameter     *)
(* (its hash, or its full value when direct-reveal).                       *)
(***************************************************************************)
C12_CheckPairing ==
    (AtInstr /\ variant = "same" /\ CurrentPhase = 3) =>
        LET i == CheckedParameter
            parameter == V.parameter_list[i]
            n == witness_size(parameter.id)
        IN  /\ (prog[pc].op # "OP_PICK" /\ prog[pc - 1].op = "OP_PICK") =>
                  /\ Len(stack) >= n
                  /\ LastN(stack, n) = SuppliedRaw(i)
            /\ prog[pc].op = "EQUALVERIFY_N" =>
                  /\ prog[pc].arg = Len(to_hash_witness(parameter))
                  /\ Len(stack) >= prog[pc].arg
                  /\ LastN(stack, prog[pc].arg) = to_hash_witness(parameter)

\* the comparison of the first of two parameters, a two-byte one, after the
\* check of a direct-reveal one
C12_Witness ==
    /\ status = "running" /\ Paired /\ CurrentPhase = 3
    /\ prog[pc].op = "EQUALVERIFY_N"
    /\ NumParams = 2 /\ CheckedParameter = 1
    /\ V.parameter_list[1].id = "b" /\ V.parameter_list[2].id = "s"
    /\ LastN(stack, BLAKE3_HASH_LENGTH) = Blake3(SuppliedRaw(1))

(***************************************************************************)
(* C13: commitment inconsistency aborts.  When a raw byte supplied for a   *)
(* parameter outside the direct-reveal set is changed, so that its hash    *)
(* differs from the committed hash, the execution aborts at a comparison   *)
(* of phase 3: it never runs an instruction of the inner program, never    *)
(* reaches the comparison of the results, and never ends.  That is: the    *)
(* execution is either still running in the phases 1-3, or aborted at an   *)
(* equalverify of phase 3, unless no such byte was changed.                *)
(***************************************************************************)
C13_CommitmentInconsistency ==
    (Started /\ variant = "same" /\ corrupt # 0) =>
        \/ status = "running" /\ CurrentPhase <= 3
        \/ status = "aborted" /\ CurrentPhase = 3 /\ prog[pc].op = "EQUALVERIFY_N"
        \/ ~ \E k \in 1..NumParams :
                /\ V.parameter_list[k].id \notin PROOF_NAMES
                /\ corrupt \in RawPositionsOf(k)
                /\ Blake3(SuppliedRaw(k)) # to_hash_witness(V.parameter_list[k])

\* the changed byte is one of the first of two parameters
C13_Witness ==
    /\ variant = "same" /\ status = "aborted" /\ CurrentPhase = 3
    /\ NumParams = 2 /\ NumResults >= 1 /\ V.script # << >>
    /\ V.parameter_list[1].id \notin PROOF_NAMES
    /\ corrupt \in RawPositionsOf(1)

(***************************************************************************)
(* More vocabulary of the phases.                                          *)
(***************************************************************************)
\* the execution has done the phases 1..ph and nothing more: the instruction
\* before pc is of a phase up to ph, the one at pc of a later phase (the
\* phases of a script never decrease)
JustAfterPhase(ph) ==
    /\ status \in {"running", "done"}
    /\ pc = 1 \/ prog[pc - 1].ph <= ph
    /\ pc = Len(prog) + 1 \/ prog[pc].ph > ph
\* the committed result hashes of the witness, first result first
CommittedBlock == Flatten([k \in 1..NumResults |-> CommittedHash(k)])
\* the hashes of the inner program's results, first result first
ComputedBlock == Flatten([k \in 1..NumResults |-> Blake3(ComputedResult(k))])
AtGadget == status = "running" /\ prog[pc].op = "NOT_EQUAL_N"
\* the two blocks the gadget compares
LowerBlock(n) == SubSeq(stack, Len(stack) - 2 * n + 1, Len(stack) - n)
UpperBlock(n) == LastN(stack, n)

(***************************************************************************)
(* C14: the inverted, non-aborting gadget.  A Segment that is not final    *)
(* and reaches phase 5 finds two blocks of BLAKE3_HASH_LENGTH * m items on *)
(* the main stack, the upper one being the committed hashes; the gadget    *)
(* does not abort, ends the execution, and replaces the two blocks by one  *)
(* marker: 1 (fault) when the blocks differ in some position, 0 (no fault) *)
(* when they are equal, that is 1 exactly when some item of the committed  *)
(* hashes differs from the recomputed hashes.                              *)
(***************************************************************************)
C14_InvertedGadget ==
    /\ [](AtGadget =>
            LET n == BLAKE3_HASH_LENGTH * NumResults IN
            /\ ~V.final_segment /\ pc = Len(prog) /\ prog[pc].arg = n
            /\ Len(stack) >= 2 * n
            /\ variant = "same" => UpperBlock(n) = CommittedBlock
            /\ (variant = "same" /\ WellShaped) => LowerBlock(n) = ComputedBlock)
    /\ [][AtGadget =>
            LET n == BLAKE3_HASH_LENGTH * NumResults
                marker == stack'[Len(stack')]
            IN  /\ status' = "done"
                /\ altstack' = altstack
                /\ stack' = Append(Take(stack, Len(stack) - 2 * n), marker)
                /\ marker \in {0, 1}
                /\ marker = 1 <=> LowerBlock(n) # UpperBlock(n)
                /\ marker = 1 <=>
                      \E i \in 1..n : LowerBlock(n)[i] # UpperBlock(n)[i]
                /\ (variant = "same" /\ WellShaped) =>
                      (marker = 1 <=> MismatchedItems >= 1)]_vars

\* the fault marker after a changed item of the first of two committed hashes
C14_Witness ==
    /\ status = "done" /\ variant = "same" /\ ~V.final_segment /\ WellShaped
    /\ NumResults = 2 /\ NumParams = 2
    /\ corrupt \in ResultHashPositions(V, 1)
    /\ stack = <<1>> /\ altstack = << >>

(***************************************************************************)
(* C16: the main-stack frame before recomputation.  Every instruction of   *)
(* the phases 1-3 leaves the bottom of the main stack, [hint items, raw    *)
(* parameters] as the witness supplies them, where it is and unmodified;   *)
(* when phase 3 is done without abort the main stack is exactly that, so   *)
(* the inner program starts on the hints and the raw parameters.           *)
(***************************************************************************)
C16_FrameBeforeRecomputation ==
    /\ [](JustAfterPhase(3) =>
            /\ stack = Take(wit, FrameLen)
            /\ stack = hinted_to_witness(V)
                         \o Flatten([k \in 1..NumParams |-> SuppliedRaw(k)]))
    /\ [][(status = "running" /\ CurrentPhase <= 3) =>
            LET n == FrameLen IN
            /\ Len(stack) >= n /\ Take(stack, n) = Take(wit, n)
            /\ Len(stack') >= n /\ Take(stack', n) = Take(wit, n)]_vars

\* the inner program is about to start on a hint and two parameters
C16_Witness ==
    /\ status = "running" /\ Paired /\ JustAfterPhase(3) /\ CurrentPhase = 4
    /\ prog[pc].op \in {"OP_DROP", "OP_NIP"}
    /\ NumParams = 2 /\ V.hints # << >> /\ NumResults >= 1
    /\ stack = Take(wit, FrameLen) /\ Len(stack) = 1 + Sum(SizesOf(V.parameter_list))

(***************************************************************************)
(* C17: altstack balance.  For every parameter the check of phase 3 pulls  *)
(* as many items from the altstack as phase 2 pushed for it (witness_size  *)
(* when direct-reveal, BLAKE3_HASH_LENGTH otherwise); when phase 3 is done *)
(* without abort the altstack holds exactly the m committed result hashes  *)
(* (pushed last result first, item by item); no OP_FROMALTSTACK finds the  *)
(* altstack empty; after the restore of phase 4 the altstack is empty.     *)
(***************************************************************************)
C17_AltstackBalance ==
    Started =>
        /\ pc = 1 =>
              \A k \in 1..NumParams :
                 LET parameter == V.parameter_list[k]
                     moved == IF parameter.id \in PROOF_NAMES
                              THEN witness_size(parameter.id)
                              ELSE BLAKE3_HASH_LENGTH
                 IN  /\ CountInstr(unlock_parameters(<<parameter>>),
                                   "OP_TOALTSTACK", 2) = moved
                     /\ CountInstr(check_parameter(parameter, 0),
                                   "OP_FROMALTSTACK", 3) = moved
        /\ JustAfterPhase(3) =>
              /\ Len(altstack) = BLAKE3_HASH_LENGTH * NumResults
              /\ variant = "same" => altstack = Rev(CommittedBlock)
        /\ (AtInstr /\ prog[pc].op = "OP_FROMALTSTACK") =>
              status = "running" /\ Len(altstack) >= 1
        /\ JustAfterPhase(4) => altstack = << >>

\* after the restore of the hashes of two results, two parameters checked
C17_Witness ==
    /\ Paired /\ JustAfterPhase(4) /\ pc > 1 /\ altstack = << >>
    /\ NumParams = 2 /\ NumResults = 2
    /\ \E k \in 1..2 : V.parameter_list[k].id \in PROOF_NAMES
    /\ \E k \in 1..2 : V.parameter_list[k].id \notin PROOF_NAMES
    /\ Len(stack) = 2 * BLAKE3_HASH_LENGTH * NumResults

(***************************************************************************)
(* C18, as stated: after the restore of phase 4 the computed and the       *)
(* committed result hashes alternate on the main stack, each result's      *)
(* computed hash next to that result's committed hash (in either order).   *)
(***************************************************************************)
C18_AsStated ==
    (Paired /\ JustAfterPhase(4) /\ WellShaped) =>
        \/ stack = Flatten([k \in 1..NumResults |->
                              Blake3(ComputedResult(k)) \o CommittedHash(k)])
        \/ stack = Flatten([k \in 1..NumResults |->
                              CommittedHash(k) \o Blake3(ComputedResult(k))])
        \/ stack = Flatten([k \in 1..NumResults |->
                              Blake3(ComputedResult(NumResults + 1 - k))
                                \o CommittedHash(NumResults + 1 - k)])
        \/ stack = Flatten([k \in 1..NumResults |->
                              CommittedHash(NumResults + 1 - k)
                                \o Blake3(ComputedResult(NumResults + 1 - k))])

(***************************************************************************)
(* C18, amended: after the restore of phase 4 the main stack holds the     *)
(* block of the m computed result hashes, first result first, and above it *)
(* the block of the m committed result hashes, first result first; a       *)
(* result's computed hash is next to its committed hash only when m <= 1.  *)
(***************************************************************************)
C18_LayoutAfterRestore ==
    (variant = "same" /\ JustAfterPhase(4) /\ WellShaped) =>
        stack = ComputedBlock \o CommittedBlock

\* two results of different lengths, one committed hash changed
C18_Witness ==
    /\ variant = "same" /\ JustAfterPhase(4) /\ WellShaped /\ pc > 1
    /\ NumResults = 2 /\ V.result_list[1].id # V.result_list[2].id
    /\ corrupt \in ResultHashPositions(V, 2)
    /\ stack = ComputedBlock \o CommittedBlock
    /\ ComputedBlock # CommittedBlock

(***************************************************************************)
(* Vocabulary of the properties of the builder and of the calls.           *)
(***************************************************************************)
\* the Segment as the builder calls describe it: the arguments as they were
\* when passed
AsAdded ==
    [name |-> seg.name, script |-> seg.script, parameter_list |-> argsP,
     result_list |-> argsR, hints |-> argsH, final_segment |-> calledFinal]
WitnessReturned == IsSome(witness_out) /\ ~Unwrap(witness_out).panicked
Fields == {"name", "script", "parameter_list", "result_list", "hints", "final_segment"}
\* every field but f is the same before and after the step, handles followed
SameExcept(f) ==
    \A g \in Fields \ {f} : View(seg', mem')[g] = View(seg, mem)[g]

C7_ConstructionError ==
    (IsSome(witness_out) /\ \E k \in 1..Len(argsP) : argsP[k].witness_data = None) =>
        Unwrap(witness_out) = Panicked

\* the unpopulated parameter is the second of two, after a populated one
C7_Witness ==
    /\ IsSome(witness_out) /\ Unwrap(witness_out) = Panicked
    /\ Len(argsP) = 2
    /\ argsP[1].witness_data # None /\ argsP[2].witness_data = None

(***************************************************************************)
(* C8: builder state.  parameter_list and result_list are the arguments of *)
(* the add_parameter and add_result calls in call order, hints is the      *)
(* argument of the last add_hint call, final_segment tells whether         *)
(* mark_final was called, and every builder call changes its own field     *)
(* only.                                                                   *)
(***************************************************************************)
C8_BuilderState ==
    /\ [](View(seg, mem) = AsAdded)
    /\ [][/\ (\E id \in Ids : AddParameter(id)) => SameExcept("parameter_list")
          /\ (\E id \in ResultIds : AddResult(id)) => SameExcept("result_list")
          /\ (\E hints \in HintArgs : AddHint(hints)) => SameExcept("hints")
          /\ MarkFinal => SameExcept("final_segment")]_vars

C8_Witness ==
    /\ View(seg, mem) = AsAdded
    /\ Len(argsP) = 2 /\ Len(argsR) = 2 /\ argsH # << >> /\ calledFinal
    /\ seg.name # "" /\ argsP[1] # argsP[2]

(***************************************************************************)
(* C9: snapshot on add.  A later change of an element by its owner changes *)
(* nothing the Segment holds, and script() and witness() return what the   *)
(* values passed to add_parameter and add_result give.                     *)
(***************************************************************************)
C9_Snapshot ==
    /\ [][(/\ mem' # mem
           /\ \E id \in Ids : \E d \in DataChoices(id) : Fill(id, d))
             => View(seg', mem') = View(seg, mem)]_vars
    /\ [][(witness_out' # witness_out /\ CallWitness)
             => witness_out' = Some(witness(AsAdded))]_vars
    /\ [][(script_out' # script_out /\ CallScript)
             => script_out' = Some(script(AsAdded))]_vars

\* witness() was called on a Segment holding "a" as it was before its owner
\* changed it
C9_Witness ==
    /\ IsSome(witness_out)
    /\ \E k \in 1..Len(argsP) :
          /\ argsP[k].id = "a"
          /\ mem[seg.parameter_list[k]] = argsP[k]
          /\ mem[OwnerAddr("a")] # argsP[k]

Unmarked == View([seg EXCEPT !.final_segment = FALSE], mem)
Marked == View(mark_final(seg), mem)

UpToPhase4(ins) == ins.ph <= 4

C15_TerminalFlag ==
    LET marked == script(Marked)
        unmarked == script(Unmarked)
    IN  /\ unmarked
             = marked \o not_equal(BLAKE3_HASH_LENGTH * Len(seg.result_list), 5)
        /\ marked = SelectSeq(unmarked, UpToPhase4)
        /\ witness(Unmarked) = witness(Marked)
        /\ IsSome(script_out) =>
              Unwrap(script_out) = IF is_final(seg) THEN marked ELSE unmarked
        /\ IsSome(witness_out) => Unwrap(witness_out) = witness(Marked)

\* script() and witness() called on a Segment marked final, with two
\* parameters, two results and hints
C15_Witness ==
    /\ calledFinal /\ is_final(seg)
    /\ IsSome(script_out) /\ WitnessReturned
    /\ Len(seg.parameter_list) = 2 /\ Len(seg.result_list) = 2 /\ seg.hints # << >>
    /\ Len(script(Unmarked)) = Len(Unwrap(script_out)) + 1
    /\ Unwrap(witness_out) = witness(Unmarked)

(***************************************************************************)
(* Vocabulary of the witness layout.                                       *)
(***************************************************************************)
\* what precedes the result openings: hints, raw parameters forward,
\* parameter openings in reverse
BeforeResultOpenings ==
    Flatten(argsH)
      \o Flatten([k \in 1..Len(argsP) |-> Unwrap(argsP[k].witness_data)])
      \o Flatten([k \in 1..Len(argsP) |-> get_witness(argsP[Len(argsP) + 1 - k])])
\* the items of the returned witness after those
ResultOpeningsReturned ==
    SubSeq(Unwrap(witness_out).witness, Len(BeforeResultOpenings) + 1,
           Len(Unwrap(witness_out).witness))

====
